---------------------------- MODULE Spec2Model ----------------------------
(***************************************************************************)
(* Model of the change-attribution and metadata-reconciliation engine of   *)
(* AI_doc: ChangeDetector.parse_diffs and identify_changes_in_structure    *)
(* (src/ai_doc/change_detector.py) and Runner.process_file_changes /       *)
(* update_existing_item / update_object (src/repo_agent/runner.py).        *)
(*                                                                         *)
(* The specifications of the module share its variables:                   *)
(*   SpecDiff  parse_diffs, one loop iteration per step                    *)
(*   SpecAttr  identify_changes_in_structure on a growing changed_lines    *)
(*   SpecProc  the same, called as process_file_changes calls it           *)
(*   Spec      process_file_changes on one tracked file, with the thread   *)
(*             pool of update_existing_item                                *)
(*   SpecPool  the thread pool with more tasks than workers                *)
(*   SpecAi    the older runner (src/ai_doc/runner.py)                     *)
(*   SpecAiLive  the same with the scheduling of the thread pool           *)
(*   SpecGen   Runner.__init__, run and first_generate over processes      *)
(*   SpecRef   find_all_referencer                                         *)
(*   SpecNew   process_file_changes on a file without an entry             *)
(***************************************************************************)
EXTENDS Integers, Sequences, FiniteSets, TLC

VARIABLES
    \* ---- parse_diffs (SpecDiff)
    diffs,                  \* the argument: a sequence of lines, each a sequence of characters
    script,                 \* the edit script the diff was rendered from (<<>> for a raw input)
    wellformed,             \* TRUE when diffs is the rendering of script
    idx,                    \* position of the for loop: index of the next line
    line_number_current,    \* old-file cursor
    line_number_change,     \* new-file cursor
    changed_lines,          \* {"added": [...], "removed": [...]}
    \* ---- identify_changes_in_structure (SpecAttr)
    structures,             \* list of (type, name, start, end, parent)
    attr_lines,             \* the changed_lines argument
    changes_in_structures,  \* the returned dict of sets
    \* ---- process_file_changes / update_existing_item (Spec)
    head,                   \* declarations of the file at HEAD (previous version)
    work,                   \* declarations of the file in the working tree (current version)
    json_data,              \* persisted project_hierarchy entry of the file
    file_dict,              \* the in-memory dict update_existing_item mutates
    current_objects,        \* generate_file_structure result of the running call
    changes_in_pyfile,      \* attribution handed to update_existing_item
    tasks,                  \* futures submitted to the ThreadPoolExecutor, in order
    pc,                     \* position of the main thread
    calls,                  \* number of process_file_changes calls so far
    prev,                   \* history: between calls, "completed" when the last call wrote the
                            \* json and the working tree was not edited since; in a call,
                            \* "repeat" when it started in such a state; "none" otherwise
    \* ---- Runner.__init__ / run / first_generate (SpecGen)
    topology_list,          \* meta_info.get_topology(): the doc items, in generation order
    item_md,                \* md_content of each doc item of the in-memory meta_info
    document_version,       \* meta_info.document_version of the in-memory meta_info
    checkpointed,           \* the checkpoint on disk: exists, items (by full name), document_version
    topo_k,                 \* position of the for loop of first_generate
    gen_pc,                 \* position of the process: "off", "loop", "checkpoint", "final",
                            \* "detect", "exited"
    fault,                  \* what raised in first_generate during this run, "none" if nothing
    gen_count,              \* per doc item: documents the generator returned for it, all runs
    runs,                   \* processes started so far
    \* ---- find_all_referencer (SpecRef)
    ref_repo,               \* the files under repo_path: path -> lines -> names, by column
    ref_query,              \* the arguments of the call
    ref_result              \* <<>> before the call, then <<[raised, refs]>>

diffVars == <<diffs, script, wellformed, idx, line_number_current,
              line_number_change, changed_lines>>
attrVars == <<structures, attr_lines, changes_in_structures>>
runVars  == <<head, work, json_data, file_dict, current_objects,
              changes_in_pyfile, tasks, pc, calls, prev>>
genVars  == <<topology_list, item_md, document_version, checkpointed, topo_k,
              gen_pc, fault, gen_count, runs>>
refVars  == <<ref_repo, ref_query, ref_result>>
vars     == <<diffVars, attrVars, runVars, genVars, refVars>>

(***************************************************************************)
(* Generic helpers                                                         *)
(***************************************************************************)
Range(s) == {s[i] : i \in 1..Len(s)}

SeqsUpTo(S, n) == UNION {[1..k -> S] : k \in 0..n}

Count(s, e) == Cardinality({i \in 1..Len(s) : s[i] = e})

SameBag(s, t) ==
    /\ Len(s) = Len(t)
    /\ \A e \in Range(s) \cup Range(t) : Count(s, e) = Count(t, e)

(***************************************************************************)
(* Text lines are sequences of one-character strings.                      *)
(***************************************************************************)
DigitChars == <<"0", "1", "2", "3", "4", "5", "6", "7", "8", "9">>

IsDigit(c) == c \in Range(DigitChars)

DigitVal(c) == (CHOOSE i \in 1..10 : DigitChars[i] = c) - 1

Num(n) ==
    IF n < 10 THEN <<DigitChars[n + 1]>>
    ELSE <<DigitChars[(n \div 10) + 1], DigitChars[(n % 10) + 1]>>

\* str.startswith
StartsWith(line, prefix) ==
    /\ Len(line) >= Len(prefix)
    /\ SubSeq(line, 1, Len(prefix)) = prefix

\* line[1:]
Tail1(line) == IF Len(line) = 0 THEN <<>> ELSE Tail(line)

(***************************************************************************)
(* re.match(r"@@ \-(\d+),\d+ \+(\d+),\d+ @@", line)                        *)
(* Positions are 1-based; 0 means "no match".                              *)
(***************************************************************************)
\* a literal at position i: the position after it, or 0
ReLit(line, i, lit) ==
    IF i = 0 THEN 0
    ELSE IF /\ i + Len(lit) - 1 <= Len(line)
            /\ SubSeq(line, i, i + Len(lit) - 1) = lit
         THEN i + Len(lit)
         ELSE 0

RECURSIVE DigitsEnd(_, _)
\* the position after the maximal run of digits starting at i
DigitsEnd(line, i) ==
    IF i <= Len(line) /\ IsDigit(line[i]) THEN DigitsEnd(line, i + 1) ELSE i

\* \d+ at position i: the position after it, or 0
ReDigits(line, i) ==
    IF i = 0 THEN 0
    ELSE IF DigitsEnd(line, i) > i THEN DigitsEnd(line, i) ELSE 0

RECURSIVE IntOf(_)
\* int(group)
IntOf(ds) ==
    IF Len(ds) = 0 THEN 0
    ELSE IntOf(SubSeq(ds, 1, Len(ds) - 1)) * 10 + DigitVal(ds[Len(ds)])

HunkRe(line) ==
    LET p1 == ReLit(line, 1, <<"@", "@", " ", "-">>)
        p2 == ReDigits(line, p1)
        p3 == ReLit(line, p2, <<",">>)
        p4 == ReDigits(line, p3)
        p5 == ReLit(line, p4, <<" ", "+">>)
        p6 == ReDigits(line, p5)
        p7 == ReLit(line, p6, <<",">>)
        p8 == ReDigits(line, p7)
        p9 == ReLit(line, p8, <<" ", "@", "@">>)
    IN  IF p9 = 0
        THEN [matched |-> FALSE, group1 |-> 0, group2 |-> 0]
        ELSE [matched |-> TRUE,
              group1  |-> IntOf(SubSeq(line, p1, p2 - 1)),
              group2  |-> IntOf(SubSeq(line, p5, p6 - 1))]

(***************************************************************************)
(* One iteration of the for loop of parse_diffs.  st holds the function's   *)
(* locals.                                                                 *)
(***************************************************************************)
\* a variant that never resets the cursors at a hunk header
ParseStepNoReset(st, line) ==
    IF StartsWith(line, <<"+">>) /\ ~StartsWith(line, <<"+", "+", "+">>)
    THEN [st EXCEPT !.added = Append(@, <<st.change, Tail1(line)>>),
                    !.change = @ + 1]
    ELSE IF StartsWith(line, <<"-">>) /\ ~StartsWith(line, <<"-", "-", "-">>)
    THEN [st EXCEPT !.removed = Append(@, <<st.current, Tail1(line)>>),
                    !.current = @ + 1]
    ELSE [st EXCEPT !.current = @ + 1, !.change = @ + 1]

\* a variant that puts a new record in front of its list
ParseStepPrepend(st, line) ==
    LET line_number_info == HunkRe(line) IN
    IF line_number_info.matched
    THEN [st EXCEPT !.current = line_number_info.group1,
                    !.change  = line_number_info.group2]
    ELSE IF StartsWith(line, <<"+">>) /\ ~StartsWith(line, <<"+", "+", "+">>)
    THEN [st EXCEPT !.added = <<<<st.change, Tail1(line)>>>> \o @,
                    !.change = @ + 1]
    ELSE IF StartsWith(line, <<"-">>) /\ ~StartsWith(line, <<"-", "-", "-">>)
    THEN [st EXCEPT !.removed = <<<<st.current, Tail1(line)>>>> \o @,
                    !.current = @ + 1]
    ELSE [st EXCEPT !.current = @ + 1, !.change = @ + 1]

ParseStep(st, line) ==
    LET line_number_info == HunkRe(line) IN
    IF line_number_info.matched
    THEN [st EXCEPT !.current = line_number_info.group1,
                    !.change  = line_number_info.group2]
    ELSE IF StartsWith(line, <<"+">>) /\ ~StartsWith(line, <<"+", "+", "+">>)
    THEN [st EXCEPT !.added = Append(@, <<st.change, Tail1(line)>>),
                    !.change = @ + 1]
    ELSE IF StartsWith(line, <<"-">>) /\ ~StartsWith(line, <<"-", "-", "-">>)
    THEN [st EXCEPT !.removed = Append(@, <<st.current, Tail1(line)>>),
                    !.current = @ + 1]
    ELSE [st EXCEPT !.current = @ + 1, !.change = @ + 1]

ParseInit == [current |-> 0, change |-> 0, added |-> <<>>, removed |-> <<>>]

RECURSIVE ParseFold(_, _)
ParseFold(st, ds) ==
    IF Len(ds) = 0 THEN st ELSE ParseFold(ParseStep(st, Head(ds)), Tail(ds))

\* parse_diffs(diffs)
ParseDiffs(ds) ==
    LET st == ParseFold(ParseInit, ds)
    IN  [added |-> st.added, removed |-> st.removed]


(***************************************************************************)
(* The input of parse_diffs: what ChangeDetector.get_file_diff hands over, *)
(* the lines of `git diff`.  A diff is rendered from an edit script: a     *)
(* sequence of items [op, text] with op                                    *)
(*   "ctx"  a line of both files, shown in a hunk                          *)
(*   "add"  a line of the new file only                                    *)
(*   "del"  a line of the old file only                                    *)
(*   "gap"  a line of both files that no hunk shows                        *)
(* A hunk is a maximal run of items that are not gaps.                     *)
(***************************************************************************)
MaxScript == 3      \* longest edit script
MaxRawLines == 2    \* longest raw (not rendered) input

Texts == {<<"a">>, <<"+", "+", "a">>, <<"-", "-", "a">>}

ScriptItems ==
    [op : {"ctx", "add", "del"}, text : Texts] \cup [op : {"gap"}, text : {<<"a">>}]

InOld(item) == item.op \in {"ctx", "del", "gap"}
InNew(item) == item.op \in {"ctx", "add", "gap"}

\* last index of the hunk that starts at k
RECURSIVE RunEnd(_, _)
RunEnd(s, k) ==
    IF k < Len(s) /\ s[k + 1].op # "gap" THEN RunEnd(s, k + 1) ELSE k

HunkStarts(s) ==
    {k \in 1..Len(s) : s[k].op # "gap" /\ (k = 1 \/ s[k - 1].op = "gap")}

\* every hunk holds a change
WellFormedScript(s) ==
    \A k \in HunkStarts(s) : \E j \in k..RunEnd(s, k) : s[j].op \in {"add", "del"}

Scripts == {s \in SeqsUpTo(ScriptItems, MaxScript) : WellFormedScript(s)}

OldCount(s, a, b) == Cardinality({j \in a..b : InOld(s[j])})
NewCount(s, a, b) == Cardinality({j \in a..b : InNew(s[j])})

\* git's range: the count is left out when it is 1; an empty range starts at
\* the line before it
GitRange(start, count) ==
    IF count = 1 THEN Num(start)
    ELSE Num(IF count = 0 THEN start - 1 ELSE start) \o <<",">> \o Num(count)

GitHunkHeader(s, k) ==
    LET e == RunEnd(s, k) IN
    <<"@", "@", " ", "-">>
        \o GitRange(OldCount(s, 1, k - 1) + 1, OldCount(s, k, e))
        \o <<" ", "+">>
        \o GitRange(NewCount(s, 1, k - 1) + 1, NewCount(s, k, e))
        \o <<" ", "@", "@">>

ItemLine(item) ==
    (CASE item.op = "add" -> <<"+">>
       [] item.op = "del" -> <<"-">>
       [] OTHER           -> <<" ">>) \o item.text

RECURSIVE RenderFrom(_, _)
RenderFrom(s, k) ==
    IF k > Len(s) THEN <<>>
    ELSE IF s[k].op = "gap" THEN RenderFrom(s, k + 1)
    ELSE (IF k \in HunkStarts(s) THEN <<GitHunkHeader(s, k)>> ELSE <<>>)
            \o <<ItemLine(s[k])>> \o RenderFrom(s, k + 1)

GitFileHeader ==
    << <<"d", "i", "f", "f">>, <<"i", "n", "d", "e", "x">>,
       <<"-", "-", "-", " ", "a">>, <<"+", "+", "+", " ", "b">> >>

\* `git diff` of the two files the script relates; nothing when they are equal
GitDiff(s) ==
    IF HunkStarts(s) = {} THEN <<>> ELSE GitFileHeader \o RenderFrom(s, 1)

\* the records a correct mapping yields: every added line with its number in
\* the new file, every removed line with its number in the old file
RECURSIVE RecordsOf(_, _, _)
RecordsOf(s, k, kind) ==
    IF k = 0 THEN <<>>
    ELSE IF s[k].op = kind
         THEN Append(RecordsOf(s, k - 1, kind),
                     <<IF kind = "add" THEN NewCount(s, 1, k) ELSE OldCount(s, 1, k),
                       s[k].text>>)
         ELSE RecordsOf(s, k - 1, kind)

ExpectedAdded(s)   == RecordsOf(s, Len(s), "add")
ExpectedRemoved(s) == RecordsOf(s, Len(s), "del")

\* raw inputs: any short sequence of these lines
RawLines ==
    { <<"+", "a">>, <<"-", "a">>, <<" ", "a">>, <<>>,
      <<"+", "+", "+", " ", "b">>, <<"-", "-", "-", " ", "a">>,
      <<"@", "@", " ", "-", "1", ",", "2", " ", "+", "1", ",", "3", " ", "@", "@">>,
      <<"@", "@", " ", "-", "4", " ", "+", "4", ",", "2", " ", "@", "@">> }

(***************************************************************************)
(* SpecDiff: parse_diffs, one iteration of its loop per step               *)
(***************************************************************************)
AttrParked ==
    /\ structures = <<>>
    /\ attr_lines = [added |-> <<>>, removed |-> <<>>]
    /\ changes_in_structures = [added |-> {}, removed |-> {}]

RunParked ==
    /\ head = <<>>
    /\ work = <<>>
    /\ json_data = <<>>
    /\ file_dict = <<>>
    /\ current_objects = <<>>
    /\ changes_in_pyfile = [added |-> {}, removed |-> {}]
    /\ tasks = <<>>
    /\ pc = "parked"
    /\ calls = 0
    /\ prev = "none"

RefParked ==
    /\ ref_repo = <<>>
    /\ ref_query = <<>>
    /\ ref_result = <<>>

GenParked ==
    /\ topology_list = <<>>
    /\ item_md = <<>>
    /\ document_version = -1
    /\ checkpointed = [exists |-> FALSE, items |-> <<>>, document_version |-> -1]
    /\ topo_k = 0
    /\ gen_pc = "off"
    /\ fault = "none"
    /\ gen_count = <<>>
    /\ runs = 0

DiffParked ==
    /\ diffs = <<>>
    /\ script = <<>>
    /\ wellformed = FALSE
    /\ idx = 1
    /\ line_number_current = 0
    /\ line_number_change = 0
    /\ changed_lines = [added |-> <<>>, removed |-> <<>>]

InitDiff ==
    /\ \/ /\ script \in Scripts
          /\ diffs = GitDiff(script)
          /\ wellformed = TRUE
       \/ /\ script = <<>>
          /\ diffs \in SeqsUpTo(RawLines, MaxRawLines)
          /\ wellformed = FALSE
    /\ idx = 1
    /\ line_number_current = 0
    /\ line_number_change = 0
    /\ changed_lines = [added |-> <<>>, removed |-> <<>>]
    /\ AttrParked
    /\ RunParked
    /\ GenParked
    /\ RefParked

\* one iteration of `for line in diffs`
ParseLine ==
    /\ idx <= Len(diffs)
    /\ LET st == ParseStep([current |-> line_number_current,
                            change  |-> line_number_change,
                            added   |-> changed_lines.added,
                            removed |-> changed_lines.removed], diffs[idx])
       IN  /\ line_number_current' = st.current
           /\ line_number_change' = st.change
           /\ changed_lines' = [added |-> st.added, removed |-> st.removed]
    /\ idx' = idx + 1
    /\ UNCHANGED <<diffs, script, wellformed, attrVars, runVars, genVars, refVars>>

ParseDone == idx > Len(diffs)

NextDiff == ParseLine

SpecDiff == InitDiff /\ [][NextDiff]_vars


(***************************************************************************)
(* Claims about parse_diffs                                                *)
(***************************************************************************)
Nums == 0..99

HdrOld(A) == <<"@", "@", " ", "-">> \o Num(A) \o <<",">>
HdrNew(A, n, B) == HdrOld(A) \o Num(n) \o <<" ", "+">> \o Num(B) \o <<",">>

\* the pairs <<A, B>> for which the line reads "@@ -A,len1 +B,len2 @@..."
HeaderCursors(line) ==
    UNION { UNION { { <<A, B>> : B \in { B \in Nums :
                        /\ StartsWith(line, HdrNew(A, n, B))
                        /\ \E m \in Nums :
                              StartsWith(line, HdrNew(A, n, B) \o Num(m) \o <<" ", "@", "@">>) } }
                    : n \in { n \in Nums : StartsWith(line, HdrOld(A) \o Num(n) \o <<" ", "+">>) } }
            : A \in { A \in Nums : StartsWith(line, HdrOld(A)) } }

\* C3: for a well-formed diff of an old and a new file, parse_diffs records
\* every added line exactly once with its line number in the new file and
\* every removed line exactly once with its line number in the old file.
C3_RecordsMatchFiles ==
    (wellformed /\ ParseDone) =>
        /\ SameBag(changed_lines.added, ExpectedAdded(script))
        /\ SameBag(changed_lines.removed, ExpectedRemoved(script))

\* C4: each iteration follows the two-cursor rule: a header
\* "@@ -A,len1 +B,len2 @@" sets the cursors to A and B and emits nothing; a
\* "+" line (not "+++") appends (new cursor, content) to added and increments
\* the new cursor only; a "-" line (not "---") appends (old cursor, content)
\* to removed and increments the old cursor only; any other line increments
\* both and emits nothing; the cursors change at no other time.
C4_TwoCursorRule ==
    [][ IF idx' = idx
        THEN /\ line_number_current' = line_number_current
             /\ line_number_change' = line_number_change
             /\ changed_lines' = changed_lines
        ELSE LET line == diffs[idx] IN
             /\ idx' = idx + 1
             /\ IF HeaderCursors(line) # {}
                THEN /\ <<line_number_current', line_number_change'>> \in HeaderCursors(line)
                     /\ changed_lines' = changed_lines
                ELSE IF Len(line) > 0 /\ line[1] = "+"
                        /\ ~(Len(line) >= 3 /\ line[2] = "+" /\ line[3] = "+")
                THEN /\ changed_lines' =
                          [changed_lines EXCEPT
                             !.added = @ \o << <<line_number_change, Tail(line)>> >>]
                     /\ line_number_change' = line_number_change + 1
                     /\ line_number_current' = line_number_current
                ELSE IF Len(line) > 0 /\ line[1] = "-"
                        /\ ~(Len(line) >= 3 /\ line[2] = "-" /\ line[3] = "-")
                THEN /\ changed_lines' =
                          [changed_lines EXCEPT
                             !.removed = @ \o << <<line_number_current, Tail(line)>> >>]
                     /\ line_number_current' = line_number_current + 1
                     /\ line_number_change' = line_number_change
                ELSE /\ changed_lines' = changed_lines
                     /\ line_number_current' = line_number_current + 1
                     /\ line_number_change' = line_number_change + 1
      ]_vars

\* a parse that met a full hunk header, an added, a removed and a context line
C4_Witness ==
    /\ ParseDone
    /\ \E i \in 1..Len(diffs) :
          /\ HeaderCursors(diffs[i]) # {}
          /\ \E j \in (i + 1)..Len(diffs) : StartsWith(diffs[j], <<" ">>)
    /\ Len(changed_lines.added) > 0
    /\ Len(changed_lines.removed) > 0

\* C5: an input with no hunk header yields two empty lists, whatever its
\* other lines are.
C5_NoHeaderNoRecords ==
    (ParseDone /\ \A i \in 1..Len(diffs) : ~StartsWith(diffs[i], <<"@", "@">>)) =>
        changed_lines = [added |-> <<>>, removed |-> <<>>]


\* a line that starts as a hunk header and that the pattern does not match
UnparsableHeader(line) == StartsWith(line, <<"@", "@">>) /\ ~HunkRe(line).matched

\* C19: once the diff held a hunk header that cannot be parsed, the parse is
\* aborted: no line record computed past that header is added to the result.
C19_AbortAtUnparsableHeader ==
    [][ (\E k \in 1..(idx - 1) : UnparsableHeader(diffs[k])) =>
            changed_lines' = changed_lines ]_vars


(***************************************************************************)
(* Declarations.  A version of the file is the list of its declarations as *)
(* the structure extractor reports them (FileHandler, outside src/).       *)
(***************************************************************************)
Decl(t, n, s, e, p, c) ==
    [type |-> t, name |-> n, code_start_line |-> s, code_end_line |-> e,
     parent |-> p, name_column |-> c]

VEmpty == <<>>
VF5    == << Decl("FunctionDef", "f", 1, 5, "None", 4) >>
VF6H   == << Decl("FunctionDef", "f", 1, 6, "None", 4),
             Decl("FunctionDef", "h", 7, 9, "None", 4) >>
VG5    == << Decl("FunctionDef", "g", 1, 5, "None", 4) >>
VCls   == << Decl("ClassDef", "A", 1, 4, "None", 6),
             Decl("FunctionDef", "m", 2, 4, "A", 8),
             Decl("FunctionDef", "m", 6, 8, "None", 4) >>

Versions == {VEmpty, VF5, VF6H, VG5, VCls}

\* get_functions_and_classes: (type, name, start_line, end_line, parent)
GetFunctionsAndClasses(version) ==
    [i \in 1..Len(version) |->
        <<version[i].type, version[i].name, version[i].code_start_line,
          version[i].code_end_line, version[i].parent>>]

(***************************************************************************)
(* identify_changes_in_structure                                           *)
(***************************************************************************)
\* a variant whose spans exclude their end line
RECURSIVE AttributeLineOpenEnd(_, _)
AttributeLineOpenEnd(line_number, structs) ==
    IF Len(structs) = 0 THEN {}
    ELSE LET s == Head(structs) IN
         (IF s[3] <= line_number /\ line_number < s[4] THEN {<<s[2], s[5]>>} ELSE {})
            \cup AttributeLineOpenEnd(line_number, Tail(structs))

RECURSIVE AttributeLine(_, _)
\* the innermost loop: the structures whose span holds line_number
AttributeLine(line_number, structs) ==
    IF Len(structs) = 0 THEN {}
    ELSE LET s == Head(structs) IN
         (IF s[3] <= line_number /\ line_number <= s[4] THEN {<<s[2], s[5]>>} ELSE {})
            \cup AttributeLine(line_number, Tail(structs))

\* a variant that keeps only what the last line attributes to
AttributeLinesLastOnly(lines, structs) ==
    IF Len(lines) = 0 THEN {} ELSE AttributeLine(lines[Len(lines)][1], structs)

RECURSIVE AttributeLines(_, _)
\* `for line_number, _ in lines`
AttributeLines(lines, structs) ==
    IF Len(lines) = 0 THEN {}
    ELSE AttributeLine(Head(lines)[1], structs) \cup AttributeLines(Tail(lines), structs)

IdentifyChangesInStructure(cl, structs) ==
    [added   |-> AttributeLines(cl.added, structs),
     removed |-> AttributeLines(cl.removed, structs)]

(***************************************************************************)
(* SpecAttr: identify_changes_in_structure on a fixed declaration list and *)
(* a changed_lines argument that grows by one record per step              *)
(***************************************************************************)
MaxChangedLines == 2    \* records in changed_lines
MaxLineNo == 9          \* largest line number of a record

InsertAt(s, p, e) == SubSeq(s, 1, p - 1) \o <<e>> \o SubSeq(s, p, Len(s))

InitAttr ==
    /\ structures \in {GetFunctionsAndClasses(v) : v \in Versions}
    /\ attr_lines = [added |-> <<>>, removed |-> <<>>]
    /\ changes_in_structures = IdentifyChangesInStructure(attr_lines, structures)
    /\ DiffParked
    /\ RunParked
    /\ GenParked
    /\ RefParked

AddChangedLine ==
    /\ Len(attr_lines.added) + Len(attr_lines.removed) < MaxChangedLines
    /\ \E kind \in {"added", "removed"}, n \in 0..MaxLineNo :
         \E p \in 1..(Len(attr_lines[kind]) + 1) :
            attr_lines' = [attr_lines EXCEPT ![kind] = InsertAt(@, p, <<n, <<"a">>>>)]
    /\ changes_in_structures' = IdentifyChangesInStructure(attr_lines', structures)
    /\ UNCHANGED <<structures, diffVars, runVars, genVars, refVars>>

NextAttr == AddChangedLine

SpecAttr == InitAttr /\ [][NextAttr]_vars

(***************************************************************************)
(* SpecProc: the attribution as process_file_changes calls it, on the      *)
(* declarations of the current source; head is the previous version of the *)
(* file, whose numbering the removed records use                           *)
(***************************************************************************)
InitProc ==
    /\ head \in Versions
    /\ work \in Versions \ {head}
    /\ structures = GetFunctionsAndClasses(work)
    /\ attr_lines = [added |-> <<>>, removed |-> <<>>]
    /\ changes_in_structures = IdentifyChangesInStructure(attr_lines, structures)
    /\ json_data = <<>>
    /\ file_dict = <<>>
    /\ current_objects = <<>>
    /\ changes_in_pyfile = [added |-> {}, removed |-> {}]
    /\ tasks = <<>>
    /\ pc = "parked"
    /\ calls = 0
    /\ prev = "none"
    /\ DiffParked
    /\ GenParked
    /\ RefParked

SpecProc == InitProc /\ [][NextAttr]_vars

\* the (name, parent) pairs of the declarations of a version whose span holds
\* the number of one of the records
SpansHolding(version, lines) ==
    { <<d.name, d.parent>> : d \in { e \in Range(version) :
          \E i \in 1..Len(lines) :
              e.code_start_line <= lines[i][1] /\ lines[i][1] <= e.code_end_line } }

\* C18: removed records are attributed against the declaration spans of the
\* old version of the file, added records against those of the new version.
C18_RemovedAgainstOldVersion ==
    /\ changes_in_structures.added = SpansHolding(work, attr_lines.added)
    /\ changes_in_structures.removed = SpansHolding(head, attr_lines.removed)

\* C6: for each kind the result is exactly the set of (name, parent) of the
\* declarations whose inclusive span holds the number of a changed line of
\* that kind; every enclosing declaration of a nested line is included.
C6_ExactAttribution ==
    \A kind \in {"added", "removed"} :
        changes_in_structures[kind] =
            { <<s[2], s[5]>> : s \in { t \in Range(structures) :
                  \E i \in 1..Len(attr_lines[kind]) :
                      t[3] <= attr_lines[kind][i][1] /\ attr_lines[kind][i][1] <= t[4] } }

\* a line on the last line of a method, attributed to the method and its class
C6_Witness ==
    /\ \E i \in 1..Len(attr_lines.added) : attr_lines.added[i][1] = 4
    /\ {<<"m", "A">>, <<"A", "None">>} \subseteq changes_in_structures.added
    /\ changes_in_structures.removed # {}

\* C7: adding records to changed_lines never shrinks the attributed sets.
C7_Monotonic ==
    [][ ( /\ structures' = structures
          /\ \A kind \in {"added", "removed"} :
                \A r \in Range(attr_lines[kind]) :
                    Count(attr_lines[kind], r) <= Count(attr_lines'[kind], r) )
        => /\ changes_in_structures.added \subseteq changes_in_structures'.added
           /\ changes_in_structures.removed \subseteq changes_in_structures'.removed
      ]_vars

\* a second record was added, and the first one's attribution is still there
C7_Witness ==
    /\ Len(attr_lines.added) = 2
    /\ attr_lines.added[1][1] = 0
    /\ attr_lines.added[2][1] = 7
    /\ changes_in_structures.added = {<<"h", "None">>}


(***************************************************************************)
(* Runner (src/repo_agent/runner.py).  The metadata of the file is a dict  *)
(* keyed by declaration name; md_content is <<>> for the empty string and  *)
(* <<k>> for the text the generator returned during call k (<<0>> for text *)
(* generated before the first modelled call).                              *)
(***************************************************************************)
MaxWorkers == 5     \* ThreadPoolExecutor(max_workers=5)
MaxCalls == 2       \* process_file_changes calls in one behaviour
MaxAdded == 2       \* pairs in changes_in_pyfile['added']

NamesOf(version) == {version[i].name : i \in 1..Len(version)}

\* FileHandler.get_obj_code_info: a fresh record, its documentation empty
GetObjCodeInfo(d) ==
    [name |-> d.name, type |-> d.type, code_start_line |-> d.code_start_line,
     code_end_line |-> d.code_end_line, parent |-> d.parent,
     name_column |-> d.name_column, md_content |-> <<>>]

LastIndexOf(seq, n) ==
    CHOOSE i \in 1..Len(seq) :
        seq[i].name = n /\ \A j \in (i + 1)..Len(seq) : seq[j].name # n

\* FileHandler.generate_file_structure: a dict keyed by name; its values(), in
\* insertion order, a later declaration of the same name replacing the value
GenerateFileStructure(version) ==
    LET firsts == {i \in 1..Len(version) :
                      \A j \in 1..(i - 1) : version[j].name # version[i].name}
        kth(k) == CHOOSE i \in firsts : Cardinality({j \in firsts : j < i}) = k - 1
    IN  [k \in 1..Cardinality(firsts) |->
            GetObjCodeInfo(version[LastIndexOf(version, version[kth(k)].name)])]

\* a variant that returns the deleted names as the new ones and vice versa
GetNewObjectsSwapped(current_version, previous_version) ==
    [new_obj |-> NamesOf(previous_version) \ NamesOf(current_version),
     del_obj |-> NamesOf(current_version) \ NamesOf(previous_version)]

\* get_new_objects
GetNewObjects(current_version, previous_version) ==
    LET current_obj  == NamesOf(current_version)
        previous_obj == NamesOf(previous_version)
    IN  [new_obj |-> current_obj \ previous_obj,
         del_obj |-> previous_obj \ current_obj]

\* a variant that deletes nothing
DeleteObjectsNone(fd, del_obj) == fd

\* `for obj_name in del_obj: if obj_name in file_dict: del file_dict[obj_name]`
DeleteObjects(fd, del_obj) == [n \in (DOMAIN fd) \ del_obj |-> fd[n]]

\* current_info_dict = {obj["name"]: obj for obj in current_objects.values()}
CurrentInfoDict(objs) ==
    [n \in NamesOf(objs) |-> objs[LastIndexOf(objs, n)]]

\* a variant that leaves the refresh and the insertion for later
UpdateStructureLate(fd, info) == fd

\* a variant that overwrites the whole stored record
UpdateStructureOverwrite(fd, info) ==
    [n \in (DOMAIN fd) \cup (DOMAIN info) |->
        IF n \in DOMAIN info THEN info[n] ELSE fd[n]]

\* the loop over current_info_dict.items(): refresh the structural fields of a
\* stored object, insert an object that is not stored
UpdateStructure(fd, info) ==
    [n \in (DOMAIN fd) \cup (DOMAIN info) |->
        IF n \in DOMAIN info
        THEN IF n \in DOMAIN fd
             THEN [fd[n] EXCEPT !.type = info[n].type,
                                !.code_start_line = info[n].code_start_line,
                                !.code_end_line = info[n].code_end_line,
                                !.parent = info[n].parent,
                                !.name_column = info[n].name_column]
             ELSE info[n]
        ELSE fd[n]]

RECURSIVE ReferencersFor(_, _)
\* a variant that looks up the referencers of every attributed name
ReferencersForAny(obj_name, objs) == <<[obj_name |-> obj_name]>>

\* `for current_object in current_objects.values(): if obj_name == current_object["name"]`
ReferencersFor(obj_name, objs) ==
    IF Len(objs) = 0 THEN <<>>
    ELSE (IF obj_name = Head(objs).name THEN <<[obj_name |-> obj_name]>> ELSE <<>>)
            \o ReferencersFor(obj_name, Tail(objs))

RECURSIVE ReferencerList(_, _)
\* `for obj_name, _ in changes_in_pyfile['added']`, in the set's iteration order
ReferencerList(added, objs) ==
    IF Len(added) = 0 THEN <<>>
    ELSE ReferencersFor(Head(added)[1], objs) \o ReferencerList(Tail(added), objs)

RECURSIVE SubmitFor(_, _)
\* `for ref_obj in referencer_list: if changed_obj[0] == ref_obj["obj_name"]: submit`
SubmitFor(changed_obj, refs) ==
    IF Len(refs) = 0 THEN <<>>
    ELSE (IF changed_obj[1] = Head(refs).obj_name
          THEN <<[obj_name |-> changed_obj[1], st |-> "pending"]>> ELSE <<>>)
            \o SubmitFor(changed_obj, Tail(refs))

RECURSIVE SubmitAll(_, _)
\* `for changed_obj in changes_in_pyfile['added']`
SubmitAll(added, refs) ==
    IF Len(added) = 0 THEN <<>>
    ELSE SubmitFor(Head(added), refs) \o SubmitAll(Tail(added), refs)

\* the orders in which a set may be iterated
Orders(S) ==
    {o \in [1..Cardinality(S) -> S] : \A i, j \in 1..Cardinality(S) : o[i] = o[j] => i = j}

AttrPairs ==
    {<<"f", "None">>, <<"g", "None">>, <<"h", "None">>, <<"m", "A">>, <<"m", "None">>}

Attributions ==
    [added   : {S \in SUBSET AttrPairs : Cardinality(S) <= MaxAdded},
     removed : {{}, {<<"f", "None">>}}]

\* a variant that treats a deleted and a new name as a rename: the new node
\* takes over the documentation of a deleted one
UpdateExistingItemRename(fd, current_version, previous_version, changes, order) ==
    LET objs == GenerateFileStructure(current_version)
        nd   == GetNewObjects(current_version, previous_version)
        gone == nd.del_obj \cap DOMAIN fd
        fd1  == DeleteObjects(fd, nd.del_obj)
        fd2  == UpdateStructure(fd1, CurrentInfoDict(objs))
        fd3  == [n \in DOMAIN fd2 |->
                    IF n \in nd.new_obj /\ n \notin DOMAIN fd /\ gone # {}
                    THEN [fd2[n] EXCEPT !.md_content = fd[CHOOSE d \in gone : TRUE].md_content]
                    ELSE fd2[n]]
        referencer_list == ReferencerList(order, objs)
    IN  [file_dict |-> fd3, current_objects |-> objs,
         tasks |-> SubmitAll(order, referencer_list)]

\* a variant that also regenerates what 'removed' names
UpdateExistingItemRemovedToo(fd, current_version, previous_version, changes, order) ==
    LET objs == GenerateFileStructure(current_version)
        nd   == GetNewObjects(current_version, previous_version)
        fd1  == DeleteObjects(fd, nd.del_obj)
        fd2  == UpdateStructure(fd1, CurrentInfoDict(objs))
        all  == order \o (CHOOSE o \in Orders(changes.removed) : TRUE)
        referencer_list == ReferencerList(all, objs)
    IN  [file_dict |-> fd2, current_objects |-> objs,
         tasks |-> SubmitAll(all, referencer_list)]

\* update_existing_item up to the last executor.submit; order is the order in
\* which changes_in_pyfile['added'] is iterated
UpdateExistingItem(fd, current_version, previous_version, changes, order) ==
    LET objs == GenerateFileStructure(current_version)
        nd   == GetNewObjects(current_version, previous_version)
        fd1  == DeleteObjects(fd, nd.del_obj)
        fd2  == UpdateStructure(fd1, CurrentInfoDict(objs))
        referencer_list == ReferencerList(order, objs)
    IN  [file_dict |-> fd2, current_objects |-> objs,
         tasks |-> SubmitAll(order, referencer_list)]

\* the entry add_new_item stored for a version, documented earlier
StoredMeta(version) ==
    LET info == CurrentInfoDict(GenerateFileStructure(version))
    IN  [n \in DOMAIN info |-> [info[n] EXCEPT !.md_content = <<0>>]]

Finished(t) == t.st \in {"done", "skipped", "failed"}

(***************************************************************************)
(* Spec: process_file_changes on one file that has an entry in the         *)
(* persisted metadata                                                      *)
(***************************************************************************)
\* the file holds one function f, committed and documented
Init ==
    /\ head = VF5
    /\ work = head
    /\ json_data = StoredMeta(head)
    /\ file_dict = <<>>
    /\ current_objects = <<>>
    /\ changes_in_pyfile = [added |-> {}, removed |-> {}]
    /\ tasks = <<>>
    /\ pc = "idle"
    /\ calls = 0
    /\ prev = "none"
    /\ DiffParked
    /\ AttrParked
    /\ GenParked
    /\ RefParked

\* the developer changes the file in the working tree
EditFile ==
    /\ pc = "idle"
    /\ work' \in Versions \ {work}
    /\ prev' = "none"
    /\ UNCHANGED <<head, json_data, file_dict, current_objects, changes_in_pyfile,
                   tasks, pc, calls, diffVars, attrVars, genVars, refVars>>

\* the commit the run was the pre-commit hook of: the working tree the last
\* completed call processed becomes HEAD
Commit ==
    /\ pc = "idle"
    /\ prev = "completed"
    /\ head # work
    /\ head' = work
    /\ UNCHANGED <<work, json_data, file_dict, current_objects, changes_in_pyfile,
                   tasks, pc, calls, prev, diffVars, attrVars, genVars, refVars>>

\* process_file_changes from json.load to the last executor.submit of
\* update_existing_item: deletion, structural refresh and insertion, the
\* referencer list, the submission of the tasks
ProcessStart ==
    /\ pc = "idle"
    /\ calls < MaxCalls
    /\ \E changes \in Attributions : \E order \in Orders(changes.added) :
        LET r == UpdateExistingItem(json_data, work, head, changes, order)
        IN  /\ changes_in_pyfile' = changes
            /\ current_objects' = r.current_objects
            /\ file_dict' = r.file_dict
            /\ tasks' = r.tasks
    /\ prev' = IF prev = "completed" THEN "repeat" ELSE "none"
    /\ calls' = calls + 1
    /\ pc' = "pool"
    /\ UNCHANGED <<head, work, json_data, diffVars, attrVars, genVars, refVars>>

\* the extraction of the declarations raises inside update_existing_item: in
\* get_new_objects, before anything was touched, or in generate_file_structure,
\* after the loop over del_obj
ExtractionFails ==
    /\ pc = "idle"
    /\ calls < MaxCalls
    /\ \E point \in {"get_new_objects", "generate_file_structure"} :
        file_dict' = IF point = "get_new_objects"
                     THEN json_data
                     ELSE DeleteObjects(json_data, GetNewObjects(work, head).del_obj)
    /\ prev' = "none"
    /\ calls' = calls + 1
    /\ pc' = "extract_failed"
    /\ UNCHANGED <<head, work, json_data, current_objects, changes_in_pyfile,
                   tasks, diffVars, attrVars, genVars, refVars>>

Running == {i \in 1..Len(tasks) : tasks[i].st = "running"}

\* a variant whose executor starts a thread for every submitted task
TaskStartUnbounded ==
    /\ pc = "pool"
    /\ \E i \in 1..Len(tasks) :
        /\ tasks[i].st = "pending"
        /\ \A j \in 1..(i - 1) : tasks[j].st # "pending"
        /\ tasks' = [tasks EXCEPT ![i].st =
                        IF tasks[i].obj_name \in DOMAIN file_dict
                        THEN "running" ELSE "skipped"]
    /\ UNCHANGED <<head, work, json_data, file_dict, current_objects,
                   changes_in_pyfile, pc, calls, prev, diffVars, attrVars, genVars, refVars>>

\* a worker thread takes the oldest queued task and enters update_object
TaskStart ==
    /\ pc = "pool"
    /\ Cardinality(Running) < MaxWorkers
    /\ \E i \in 1..Len(tasks) :
        /\ tasks[i].st = "pending"
        /\ \A j \in 1..(i - 1) : tasks[j].st # "pending"
        /\ tasks' = [tasks EXCEPT ![i].st =
                        IF tasks[i].obj_name \in DOMAIN file_dict
                        THEN "running" ELSE "skipped"]
    /\ UNCHANGED <<head, work, json_data, file_dict, current_objects,
                   changes_in_pyfile, pc, calls, prev, diffVars, attrVars, genVars, refVars>>

\* a variant that stores the response in every node of the file
TaskSucceedWritesAll ==
    /\ pc = "pool"
    /\ \E i \in Running :
        /\ file_dict' = [n \in DOMAIN file_dict |->
                            [file_dict[n] EXCEPT !.md_content = <<calls>>]]
        /\ tasks' = [tasks EXCEPT ![i].st = "done"]
    /\ UNCHANGED <<head, work, json_data, current_objects, changes_in_pyfile,
                   pc, calls, prev, diffVars, attrVars, genVars, refVars>>

\* generate_doc returns: obj["md_content"] = response_message.content
TaskSucceed ==
    /\ pc = "pool"
    /\ \E i \in Running :
        /\ file_dict' = [file_dict EXCEPT ![tasks[i].obj_name].md_content = <<calls>>]
        /\ tasks' = [tasks EXCEPT ![i].st = "done"]
    /\ UNCHANGED <<head, work, json_data, current_objects, changes_in_pyfile,
                   pc, calls, prev, diffVars, attrVars, genVars, refVars>>

\* a variant in which a failure cancels the tasks that have not started
TaskFailCancels ==
    /\ pc = "pool"
    /\ \E i \in Running :
        tasks' = [j \in 1..Len(tasks) |->
                    IF j = i THEN [tasks[j] EXCEPT !.st = "failed"]
                    ELSE IF tasks[j].st = "pending"
                         THEN [tasks[j] EXCEPT !.st = "cancelled"]
                         ELSE tasks[j]]
    /\ UNCHANGED <<head, work, json_data, file_dict, current_objects,
                   changes_in_pyfile, pc, calls, prev, diffVars, attrVars, genVars, refVars>>

\* generate_doc raises: the future holds the exception
TaskFail ==
    /\ pc = "pool"
    /\ \E i \in Running : tasks' = [tasks EXCEPT ![i].st = "failed"]
    /\ UNCHANGED <<head, work, json_data, file_dict, current_objects,
                   changes_in_pyfile, pc, calls, prev, diffVars, attrVars, genVars, refVars>>

\* every future.result() returned and the executor shut down: return file_dict
JoinReturn ==
    /\ pc = "pool"
    /\ \A i \in 1..Len(tasks) : tasks[i].st \in {"done", "skipped"}
    /\ pc' = "returned"
    /\ UNCHANGED <<head, work, json_data, file_dict, current_objects,
                   changes_in_pyfile, tasks, calls, prev, diffVars, attrVars, genVars, refVars>>

\* a future.result() re-raises; the with block waits for the other tasks, then
\* the exception leaves update_existing_item
JoinRaise ==
    /\ pc = "pool"
    /\ \A i \in 1..Len(tasks) : Finished(tasks[i])
    /\ \E i \in 1..Len(tasks) : tasks[i].st = "failed"
    /\ pc' = "raised"
    /\ UNCHANGED <<head, work, json_data, file_dict, current_objects,
                   changes_in_pyfile, tasks, calls, prev, diffVars, attrVars, genVars, refVars>>

\* a variant that dumps the json whenever a task has completed
WriteJsonPerTask ==
    /\ pc = "pool"
    /\ \E i \in 1..Len(tasks) : tasks[i].st = "done"
    /\ json_data' = file_dict
    /\ UNCHANGED <<head, work, file_dict, current_objects, changes_in_pyfile,
                   tasks, pc, calls, prev, diffVars, attrVars, genVars, refVars>>

\* process_file_changes stores the returned dict and dumps the json; the
\* locals of the call are gone
WriteJson ==
    /\ pc = "returned"
    /\ json_data' = file_dict
    /\ pc' = "idle"
    /\ file_dict' = <<>>
    /\ tasks' = <<>>
    /\ changes_in_pyfile' = [added |-> {}, removed |-> {}]
    /\ current_objects' = <<>>
    /\ prev' = "completed"
    /\ UNCHANGED <<head, work, calls, diffVars, attrVars, genVars, refVars>>

\* the exception ended the run; a later run starts from the persisted json
Rerun ==
    /\ pc \in {"raised", "extract_failed"}
    /\ pc' = "idle"
    /\ file_dict' = <<>>
    /\ tasks' = <<>>
    /\ changes_in_pyfile' = [added |-> {}, removed |-> {}]
    /\ current_objects' = <<>>
    /\ prev' = "none"
    /\ UNCHANGED <<head, work, json_data, calls, diffVars, attrVars, genVars, refVars>>

Next ==
    \/ EditFile
    \/ Commit
    \/ ProcessStart
    \/ ExtractionFails
    \/ TaskStart
    \/ TaskSucceed
    \/ TaskFail
    \/ JoinReturn
    \/ JoinRaise
    \/ WriteJson
    \/ Rerun

Spec == Init /\ [][Next]_vars


(***************************************************************************)
(* SpecPool: the thread pool of update_existing_item on a file of up to    *)
(* MaxDirty functions that are all attributed as added; the initial state  *)
(* is the one after the last executor.submit                               *)
(***************************************************************************)
MaxDirty == 7       \* declarations of the file, all of them dirty

\* a file of n functions d1 .. dn of three lines each
VFuncs(n) ==
    [i \in 1..n |-> Decl("FunctionDef", "d" \o ToString(i), 3 * i - 2, 3 * i, "None", 4)]

InitPool ==
    /\ \E n \in 0..MaxDirty :
        LET order == [i \in 1..n |-> <<VFuncs(n)[i].name, "None">>]
            changes == [added |-> Range(order), removed |-> {}]
            r == UpdateExistingItem(StoredMeta(VFuncs(n)), VFuncs(n), VFuncs(n), changes, order)
        IN  /\ head = VFuncs(n)
            /\ work = head
            /\ json_data = StoredMeta(head)
            /\ changes_in_pyfile = changes
            /\ current_objects = r.current_objects
            /\ file_dict = r.file_dict
            /\ tasks = r.tasks
    /\ pc = "pool"
    /\ calls = 1
    /\ prev = "none"
    /\ DiffParked
    /\ AttrParked
    /\ GenParked
    /\ RefParked

NextPool ==
    \/ TaskStart
    \/ TaskSucceed
    \/ TaskFail
    \/ JoinReturn
    \/ JoinRaise
    \/ WriteJson
    \/ Rerun

SpecPool == InitPool /\ [][NextPool]_vars

(***************************************************************************)
(* SpecAi: process_file_changes of the older runner (src/ai_doc/runner.py) *)
(* on one tracked file.  The file's metadata is the list file["objects"];  *)
(* json_data and file_dict hold that list.                                 *)
(***************************************************************************)
\* generate_file_structure(...)["objects"]: one record per declaration
AiGenerateFileStructure(version) ==
    [i \in 1..Len(version) |-> GetObjCodeInfo(version[i])]

RECURSIVE AiRemoveFirst(_, _)
\* `for file_obj in file["objects"]: if file_obj["name"] == obj_name: remove; break`
AiRemoveFirst(objects, obj_name) ==
    IF Len(objects) = 0 THEN <<>>
    ELSE IF Head(objects).name = obj_name THEN Tail(objects)
    ELSE <<Head(objects)>> \o AiRemoveFirst(Tail(objects), obj_name)

RECURSIVE AiDeleteObjects(_, _)
\* `for obj_name in del_obj`
AiDeleteObjects(objects, del_obj) ==
    IF del_obj = {} THEN objects
    ELSE LET n == CHOOSE x \in del_obj : TRUE
         IN  AiDeleteObjects(AiRemoveFirst(objects, n), del_obj \ {n})

\* `for obj in file["objects"]: if obj["name"] in new_info_dict: ...`
AiUpdateStructure(objects, info) ==
    [i \in 1..Len(objects) |->
        IF objects[i].name \in DOMAIN info
        THEN [objects[i] EXCEPT !.type = info[objects[i].name].type,
                                !.code_start_line = info[objects[i].name].code_start_line,
                                !.code_end_line = info[objects[i].name].code_end_line,
                                !.parent = info[objects[i].name].parent,
                                !.name_column = info[objects[i].name].name_column]
        ELSE objects[i]]

\* update_existing_item of the older runner up to the last executor.submit
AiUpdateExistingItem(objects, current_version, previous_version, changes, order) ==
    LET new_objects == AiGenerateFileStructure(current_version)
        nd   == GetNewObjects(current_version, previous_version)
        o1   == AiDeleteObjects(objects, nd.del_obj)
        o2   == AiUpdateStructure(o1, CurrentInfoDict(new_objects))
        referencer_list == ReferencerList(order, new_objects)
    IN  [objects |-> o2, new_objects |-> new_objects,
         tasks |-> SubmitAll(order, referencer_list)]

\* the item add_new_item appended for a version, documented earlier
AiStoredMeta(version) ==
    [i \in 1..Len(version) |-> [GetObjCodeInfo(version[i]) EXCEPT !.md_content = <<0>>]]

InitAi ==
    /\ head = VF5
    /\ work = head
    /\ json_data = AiStoredMeta(head)
    /\ file_dict = <<>>
    /\ current_objects = <<>>
    /\ changes_in_pyfile = [added |-> {}, removed |-> {}]
    /\ tasks = <<>>
    /\ pc = "idle"
    /\ calls = 0
    /\ prev = "none"
    /\ DiffParked
    /\ AttrParked
    /\ GenParked
    /\ RefParked

AiProcessStart ==
    /\ pc = "idle"
    /\ calls < MaxCalls
    /\ \E changes \in Attributions : \E order \in Orders(changes.added) :
        LET r == AiUpdateExistingItem(json_data, work, head, changes, order)
        IN  /\ changes_in_pyfile' = changes
            /\ current_objects' = r.new_objects
            /\ file_dict' = r.objects
            /\ tasks' = r.tasks
    /\ prev' = IF prev = "completed" THEN "repeat" ELSE "none"
    /\ calls' = calls + 1
    /\ pc' = "pool"
    /\ UNCHANGED <<head, work, json_data, diffVars, attrVars, genVars, refVars>>

\* a worker thread takes the oldest queued task and enters update_object: it
\* looks for the first object of that name
AiTaskStart ==
    /\ pc = "pool"
    /\ Cardinality(Running) < MaxWorkers
    /\ \E i \in 1..Len(tasks) :
        /\ tasks[i].st = "pending"
        /\ \A j \in 1..(i - 1) : tasks[j].st # "pending"
        /\ tasks' = [tasks EXCEPT ![i].st =
                        IF \E k \in 1..Len(file_dict) : file_dict[k].name = tasks[i].obj_name
                        THEN "running" ELSE "skipped"]
    /\ UNCHANGED <<head, work, json_data, file_dict, current_objects,
                   changes_in_pyfile, pc, calls, prev, diffVars, attrVars, genVars, refVars>>

\* generate_doc returns: obj["md_content"] = ...; break
AiTaskSucceed ==
    /\ pc = "pool"
    /\ \E i \in Running :
        LET k == CHOOSE k \in 1..Len(file_dict) :
                    /\ file_dict[k].name = tasks[i].obj_name
                    /\ \A j \in 1..(k - 1) : file_dict[j].name # tasks[i].obj_name
        IN  /\ file_dict' = [file_dict EXCEPT ![k].md_content = <<calls>>]
            /\ tasks' = [tasks EXCEPT ![i].st = "done"]
    /\ UNCHANGED <<head, work, json_data, current_objects, changes_in_pyfile,
                   pc, calls, prev, diffVars, attrVars, genVars, refVars>>

NextAi ==
    \/ EditFile
    \/ Commit
    \/ AiProcessStart
    \/ AiTaskStart
    \/ AiTaskSucceed
    \/ TaskFail
    \/ JoinReturn
    \/ JoinRaise
    \/ WriteJson
    \/ Rerun

SpecAi == InitAi /\ [][NextAi]_vars

\* the scheduling of the pool: a queued task is started when a worker is
\* free, a generator call that terminates ends its task, the main thread
\* leaves the with block when every future is finished
SpecAiLive ==
    /\ SpecAi
    /\ WF_vars(AiTaskStart)
    /\ WF_vars(AiTaskSucceed \/ TaskFail)
    /\ WF_vars(JoinReturn)
    /\ WF_vars(JoinRaise)

\* C22: in the older runner every declaration of the current file that has
\* no entry in file["objects"] gets one: when update_existing_item returns,
\* every current declaration has an entry.
C22_AiEveryCurrentHasEntry ==
    pc = "returned" =>
        \A n \in NamesOf(work) : \E k \in 1..Len(file_dict) : file_dict[k].name = n


(***************************************************************************)
(* SpecGen: Runner.__init__, Runner.run and first_generate over several    *)
(* processes.  A doc item is its type, its full name (a sequence of        *)
(* characters) and the types of its fathers, nearest first.  A document is *)
(* <<r>>, the text the generator returned during process r; <<>> is "".    *)
(***************************************************************************)
MaxRuns == 3        \* processes started in one behaviour

DocItem(t, n, f) == [item_type |-> t, full_name |-> n, fathers |-> f]

\* CONFIG['ignore_list']
ignore_list == << <<"b">> >>

\* a repository with the files a (a function, a class and its method) and b
\* (ignored, one function), and a directory d with an item that has no file
\* above it
TopologyAB ==
    << DocItem("_function", <<"a", "/", "f">>, <<"_file", "_repo">>),
       DocItem("_class_function", <<"a", "/", "C", "/", "m">>,
               <<"_class", "_file", "_repo">>),
       DocItem("_class", <<"a", "/", "C">>, <<"_file", "_repo">>),
       DocItem("_file", <<"a">>, <<"_repo">>),
       DocItem("_function", <<"b", "/", "g">>, <<"_file", "_repo">>),
       DocItem("_file", <<"b">>, <<"_repo">>),
       DocItem("_function", <<"d", "/", "x">>, <<"_dir", "_repo">>),
       DocItem("_dir", <<"d">>, <<"_repo">>),
       DocItem("_repo", <<>>, <<>>) >>

\* a repository with one file of one function
TopologyOne ==
    << DocItem("_function", <<"a", "/", "f">>, <<"_file", "_repo">>),
       DocItem("_file", <<"a">>, <<"_repo">>),
       DocItem("_repo", <<>>, <<>>) >>

Topologies == {TopologyAB, TopologyOne}

RECURSIVE FileAbove(_, _)
\* the while loop of need_to_generate over doc_item.father
FileAbove(rel_file_path, fathers) ==
    IF Len(fathers) = 0 THEN FALSE
    ELSE IF Head(fathers) = "_file"
         THEN ~(\E i \in 1..Len(ignore_list) : StartsWith(rel_file_path, ignore_list[i]))
         ELSE FileAbove(rel_file_path, Tail(fathers))

\* a variant that does not look at md_content
NeedToGenerateAgain(doc_item, md) ==
    IF doc_item.item_type \in {"_file", "_dir", "_repo"} THEN FALSE
    ELSE FileAbove(doc_item.full_name, doc_item.fathers)

\* need_to_generate
NeedToGenerate(doc_item, md) ==
    IF doc_item.item_type \in {"_file", "_dir", "_repo"} THEN FALSE
    ELSE IF md # <<>> THEN FALSE
    ELSE FileAbove(doc_item.full_name, doc_item.fathers)

\* the last item of a full name
ItemNamed(topology, n) ==
    CHOOSE i \in 1..Len(topology) :
        /\ topology[i].full_name = n
        /\ \A j \in (i + 1)..Len(topology) : topology[j].full_name # n

\* a variant that writes the structure and leaves the documents out
CheckpointStructureOnly(topology, md, version) ==
    [exists |-> TRUE,
     items  |-> [n \in {topology[i].full_name : i \in 1..Len(topology)} |->
                    [item |-> topology[ItemNamed(topology, n)], md_content |-> <<>>]],
     document_version |-> version]

\* MetaInfo.checkpoint: the tree as a record keyed by the items' full names,
\* and the document version
Checkpoint(topology, md, version) ==
    [exists |-> TRUE,
     items  |-> [n \in {topology[i].full_name : i \in 1..Len(topology)} |->
                    [item |-> topology[ItemNamed(topology, n)],
                     md_content |-> md[ItemNamed(topology, n)]]],
     document_version |-> version]

\* MetaInfo.from_checkpoint_path: the md_content of the items of the loaded
\* tree, in topology order, and its document version
FromCheckpoint(topology, ckpt) ==
    [item_md |-> [i \in 1..Len(topology) |-> ckpt.items[topology[i].full_name].md_content],
     document_version |-> ckpt.document_version]

InitGen ==
    /\ topology_list \in Topologies
    /\ item_md = <<>>
    /\ document_version = -1
    /\ checkpointed = [exists |-> FALSE, items |-> <<>>, document_version |-> -1]
    /\ topo_k = 0
    /\ gen_pc = "off"
    /\ fault = "none"
    /\ gen_count = [i \in 1..Len(topology_list) |-> 0]
    /\ runs = 0
    /\ DiffParked
    /\ AttrParked
    /\ RunParked
    /\ RefParked

\* Runner.__init__: build the tree and checkpoint it when there is no
\* checkpoint, load the checkpoint otherwise
RunnerInit ==
    /\ gen_pc = "off"
    /\ runs < MaxRuns
    /\ IF ~checkpointed.exists
       THEN /\ item_md' = [i \in 1..Len(topology_list) |-> <<>>]
            /\ document_version' = -1
            /\ checkpointed' = Checkpoint(topology_list, item_md', document_version')
       ELSE /\ item_md' = FromCheckpoint(topology_list, checkpointed).item_md
            /\ document_version' = FromCheckpoint(topology_list, checkpointed).document_version
            /\ checkpointed' = checkpointed
    /\ runs' = runs + 1
    /\ fault' = "none"
    /\ topo_k' = 0
    /\ gen_pc' = "run"
    /\ UNCHANGED <<topology_list, gen_count, diffVars, attrVars, runVars, refVars>>

\* Runner.run: first_generate when document_version is -1
Run ==
    /\ gen_pc = "run"
    /\ IF document_version = -1
       THEN gen_pc' = "loop" /\ topo_k' = 1
       ELSE gen_pc' = "detect" /\ topo_k' = topo_k
    /\ UNCHANGED <<topology_list, item_md, document_version, checkpointed, fault,
                   gen_count, runs, diffVars, attrVars, runVars, refVars>>

\* an iteration for an item that need_to_generate excludes
SkipItem ==
    /\ gen_pc = "loop"
    /\ topo_k <= Len(topology_list)
    /\ ~NeedToGenerate(topology_list[topo_k], item_md[topo_k])
    /\ topo_k' = topo_k + 1
    /\ UNCHANGED <<topology_list, item_md, document_version, checkpointed, gen_pc,
                   fault, gen_count, runs, diffVars, attrVars, runVars, refVars>>

\* generate_doc returns: doc_item.md_content = response_message.content
GenerateDoc ==
    /\ gen_pc = "loop"
    /\ topo_k <= Len(topology_list)
    /\ NeedToGenerate(topology_list[topo_k], item_md[topo_k])
    /\ item_md' = [item_md EXCEPT ![topo_k] = <<runs>>]
    /\ gen_count' = [gen_count EXCEPT ![topo_k] = @ + 1]
    /\ gen_pc' = "checkpoint"
    /\ UNCHANGED <<topology_list, document_version, checkpointed, topo_k, fault,
                   runs, diffVars, attrVars, runVars, refVars>>

\* generate_doc raises: the except clause logs and first_generate returns
GenerateFails ==
    /\ gen_pc = "loop"
    /\ topo_k <= Len(topology_list)
    /\ NeedToGenerate(topology_list[topo_k], item_md[topo_k])
    /\ fault' = "generator"
    /\ gen_pc' = "detect"
    /\ UNCHANGED <<topology_list, item_md, document_version, checkpointed, topo_k,
                   gen_count, runs, diffVars, attrVars, runVars, refVars>>

\* a variant that sets the version wherever the loop stands
LoopEndAnywhere ==
    /\ gen_pc = "loop"
    /\ document_version' = 0
    /\ gen_pc' = "final"
    /\ UNCHANGED <<topology_list, item_md, checkpointed, topo_k, fault, gen_count,
                   runs, diffVars, attrVars, runVars, refVars>>

\* the loop is over: self.meta_info.document_version = 0
LoopEnd ==
    /\ gen_pc = "loop"
    /\ topo_k > Len(topology_list)
    /\ document_version' = 0
    /\ gen_pc' = "final"
    /\ UNCHANGED <<topology_list, item_md, checkpointed, topo_k, fault, gen_count,
                   runs, diffVars, attrVars, runVars, refVars>>

\* meta_info.checkpoint returns, after a document or after the loop
CheckpointDone ==
    /\ gen_pc \in {"checkpoint", "final"}
    /\ checkpointed' = Checkpoint(topology_list, item_md, document_version)
    /\ IF gen_pc = "checkpoint"
       THEN gen_pc' = "loop" /\ topo_k' = topo_k + 1
       ELSE gen_pc' = "detect" /\ topo_k' = topo_k
    /\ UNCHANGED <<topology_list, item_md, document_version, fault, gen_count,
                   runs, diffVars, attrVars, runVars, refVars>>

\* meta_info.checkpoint raises: the except clause logs and first_generate
\* returns
CheckpointFails ==
    /\ gen_pc \in {"checkpoint", "final"}
    /\ fault' = "checkpoint"
    /\ gen_pc' = "detect"
    /\ UNCHANGED <<topology_list, item_md, document_version, checkpointed, topo_k,
                   gen_count, runs, diffVars, attrVars, runVars, refVars>>

\* Runner.run goes on: change detection, the changed files, the end of the
\* process
DetectChanges ==
    /\ gen_pc = "detect"
    /\ gen_pc' = "off"
    /\ UNCHANGED <<topology_list, item_md, document_version, checkpointed, topo_k,
                   fault, gen_count, runs, diffVars, attrVars, runVars, refVars>>

NextGen ==
    \/ RunnerInit
    \/ Run
    \/ SkipItem
    \/ GenerateDoc
    \/ GenerateFails
    \/ LoopEnd
    \/ CheckpointDone
    \/ CheckpointFails
    \/ DetectChanges

SpecGen == InitGen /\ [][NextGen]_vars

\* C24: a failed checkpoint during first_generate is fatal for the run:
\* Runner.run does not go on to change detection and file processing.
C24_CheckpointFailureIsFatal ==
    fault = "checkpoint" => gen_pc # "detect"


(***************************************************************************)
(* SpecRef: find_all_referencer (repo_agent.doc_meta_info, exercised by    *)
(* src/tests/test_doc_meta_info.py).  A file is its lines, a line the      *)
(* names on it by column; a reference is <<file, line, column>>.           *)
(***************************************************************************)
MaxRefLine == 2     \* largest line_number of a query

RefRepos ==
    { <<>>,
      [e \in {"empty.py"} |-> <<>>],
      [e \in {"test.py"} |-> << <<"unused_function">>, <<"x">> >>],
      [e \in {"test.py", "b.py"} |->
          IF e = "test.py" THEN << <<"x">>, <<"y", "x">> >> ELSE << <<"x">> >>] }

RefQueries ==
    [variable_name : {"x", "unused_function"},
     file_path     : {"test.py", "b.py", "empty.py", "nonexistent.py"},
     line_number   : 1..MaxRefLine,
     column_number : 0..1,
     in_file_only  : BOOLEAN]

\* every place of the searched files where the name stands
Occurrences(repo, files, name) ==
    UNION { UNION { { <<f, l, c - 1>> : c \in {c \in 1..Len(repo[f][l]) : repo[f][l][c] = name} }
                    : l \in 1..Len(repo[f]) }
            : f \in files }

\* a variant without the handler around the lookup
FindAllReferencerUnguarded(repo, q) ==
    IF q.file_path \notin DOMAIN repo
    THEN [raised |-> TRUE, refs |-> {}]
    ELSE LET src == repo[q.file_path] IN
         IF ~( /\ q.line_number \in 1..Len(src)
               /\ q.column_number + 1 \in 1..Len(src[q.line_number]) )
         THEN [raised |-> TRUE, refs |-> {}]
         ELSE LET target == src[q.line_number][q.column_number + 1]
                  files  == IF q.in_file_only THEN {q.file_path} ELSE DOMAIN repo
              IN  [raised |-> FALSE,
                   refs   |-> { r \in Occurrences(repo, files, target) :
                                  /\ target = q.variable_name
                                  /\ ~(r[2] = q.line_number /\ r[3] = q.column_number) }]

\* find_all_referencer: the references to the name at the given place, the
\* place itself left out; a file that cannot be read or a place that is not
\* in the file ends in the handler, which returns the empty list
FindAllReferencer(repo, q) ==
    IF q.file_path \notin DOMAIN repo
    THEN [raised |-> FALSE, refs |-> {}]
    ELSE LET src == repo[q.file_path] IN
         IF ~( /\ q.line_number \in 1..Len(src)
               /\ q.column_number + 1 \in 1..Len(src[q.line_number]) )
         THEN [raised |-> FALSE, refs |-> {}]
         ELSE LET target == src[q.line_number][q.column_number + 1]
                  files  == IF q.in_file_only THEN {q.file_path} ELSE DOMAIN repo
              IN  [raised |-> FALSE,
                   refs   |-> { r \in Occurrences(repo, files, target) :
                                  /\ target = q.variable_name
                                  /\ ~(r[2] = q.line_number /\ r[3] = q.column_number) }]

InitRef ==
    /\ ref_repo \in RefRepos
    /\ ref_query \in RefQueries
    /\ ref_result = <<>>
    /\ DiffParked
    /\ AttrParked
    /\ RunParked
    /\ GenParked

FindAllReferencerCall ==
    /\ ref_result = <<>>
    /\ ref_result' = <<FindAllReferencer(ref_repo, ref_query)>>
    /\ UNCHANGED <<ref_repo, ref_query, diffVars, attrVars, runVars, genVars>>

NextRef == FindAllReferencerCall

SpecRef == InitRef /\ [][NextRef]_vars

FilePath == "a.py"

\* file_dict[name] = code_info
DictSet(d, k, v) == [n \in (DOMAIN d) \cup {k} |-> IF n = k THEN v ELSE d[n]]

InitNew ==
    /\ head = <<>>
    /\ work \in Versions
    /\ json_data \in {<<>>, [f \in {"o.py"} |-> StoredMeta(VG5)]}
    /\ file_dict = <<>>
    /\ current_objects = <<>>
    /\ changes_in_pyfile = [added |-> {}, removed |-> {}]
    /\ tasks = <<>>
    /\ pc = "idle"
    /\ calls = 0
    /\ prev = "none"
    /\ DiffParked
    /\ AttrParked
    /\ GenParked
    /\ RefParked

\* process_file_changes up to the branch: the attribution is computed, the
\* json is loaded, the path is not in it; add_new_item starts with an empty
\* file_dict and the declarations of the file
AddNewItemStart ==
    /\ pc = "idle"
    /\ calls < MaxCalls
    /\ FilePath \notin DOMAIN json_data
    /\ changes_in_pyfile' \in Attributions
    /\ file_dict' = <<>>
    /\ current_objects' = work
    /\ tasks' = <<>>
    /\ calls' = calls + 1
    /\ prev' = "none"
    /\ pc' = "adding"
    /\ UNCHANGED <<head, work, json_data, diffVars, attrVars, genVars, refVars>>

\* an iteration of the loop: get_obj_code_info, generate_doc returns,
\* code_info["md_content"] = md_content, file_dict[name] = code_info
AddGenerate ==
    /\ pc = "adding"
    /\ Len(tasks) < Len(current_objects)
    /\ LET i == Len(tasks) + 1
           code_info == [GetObjCodeInfo(current_objects[i]) EXCEPT !.md_content = <<calls, i>>]
       IN  /\ file_dict' = DictSet(file_dict, current_objects[i].name, code_info)
           /\ tasks' = Append(tasks, [obj_name |-> current_objects[i].name, st |-> "done"])
    /\ UNCHANGED <<head, work, json_data, current_objects, changes_in_pyfile, pc,
                   calls, prev, diffVars, attrVars, genVars, refVars>>

\* generate_doc raises: the exception leaves add_new_item and the run
AddGenerateFails ==
    /\ pc = "adding"
    /\ Len(tasks) < Len(current_objects)
    /\ tasks' = Append(tasks, [obj_name |-> current_objects[Len(tasks) + 1].name,
                               st |-> "failed"])
    /\ pc' = "raised"
    /\ UNCHANGED <<head, work, json_data, file_dict, current_objects,
                   changes_in_pyfile, calls, prev, diffVars, attrVars, genVars, refVars>>

\* a variant that dumps the json from inside the loop
AddWriteJsonInLoop ==
    /\ pc = "adding"
    /\ json_data' = DictSet(json_data, FilePath, file_dict)
    /\ pc' = "added"
    /\ UNCHANGED <<head, work, file_dict, current_objects, changes_in_pyfile,
                   tasks, calls, prev, diffVars, attrVars, genVars, refVars>>

\* after the loop: json_data[file_handler.file_path] = file_dict; json.dump
AddWriteJson ==
    /\ pc = "adding"
    /\ Len(tasks) = Len(current_objects)
    /\ json_data' = DictSet(json_data, FilePath, file_dict)
    /\ pc' = "added"
    /\ UNCHANGED <<head, work, file_dict, current_objects, changes_in_pyfile,
                   tasks, calls, prev, diffVars, attrVars, genVars, refVars>>

\* the markdown is written, add_new_item and process_file_changes return;
\* the locals of the call are gone
AddReturn ==
    /\ pc = "added"
    /\ pc' = "idle"
    /\ file_dict' = <<>>
    /\ tasks' = <<>>
    /\ changes_in_pyfile' = [added |-> {}, removed |-> {}]
    /\ current_objects' = <<>>
    /\ prev' = "completed"
    /\ UNCHANGED <<head, work, json_data, calls, diffVars, attrVars, genVars, refVars>>

NextNew ==
    \/ EditFile
    \/ AddNewItemStart
    \/ AddGenerate
    \/ AddGenerateFails
    \/ AddWriteJson
    \/ AddReturn
    \/ Rerun

SpecNew == InitNew /\ [][NextNew]_vars


(***************************************************************************)
(* Claims about update_existing_item                                       *)
(***************************************************************************)
InCall == pc \in {"pool", "returned", "raised"}

CurNames == NamesOf(current_objects)

\* the names attributed as added that are declarations of the current file
Dirty == {d \in CurNames : \E q \in changes_in_pyfile.added : q[1] = d}

\* the names update_object was submitted for
Submitted == {tasks[i].obj_name : i \in 1..Len(tasks)}

\* the names the generator was called for
Invoked ==
    {tasks[i].obj_name : i \in {j \in 1..Len(tasks) :
                                   tasks[j].st \in {"running", "done", "failed"}}}

\* the documentation of a name before the call
StoredDoc(n) == IF n \in DOMAIN json_data THEN json_data[n].md_content ELSE <<>>

\* C1: when update_existing_item returns, the keys of file_dict are exactly
\* the names of the declarations of the file's current content.
C1_KeysEqualCurrent ==
    pc = "returned" => DOMAIN file_dict = NamesOf(work)

\* C2: the declarations regenerated in a call are exactly the names d with
\* (d, parent) in changes_in_pyfile['added'] that are current declarations;
\* no other node's md_content changes.
C2_RegeneratedExactlyDirty ==
    InCall =>
        /\ Submitted = Dirty
        /\ Invoked \subseteq Dirty
        /\ pc \in {"returned", "raised"} => Invoked = Dirty
        /\ \A n \in (DOMAIN file_dict) \ Dirty : file_dict[n].md_content = StoredDoc(n)

\* a returned call that regenerated one declaration, ignored an attributed
\* name that is no current declaration, and kept another documented node
C2_Witness ==
    /\ pc = "returned"
    /\ \E d \in Dirty : file_dict[d].md_content = <<calls>>
    /\ \E q \in changes_in_pyfile.added : q[1] \notin CurNames
    /\ \E n \in (DOMAIN file_dict) \ Dirty : file_dict[n].md_content # <<>>

\* C8: a name of the previous version that is not in the current version is
\* removed from the metadata and no regeneration task is submitted for it,
\* whatever the attribution says.
C8_DeletedNeverRegenerated ==
    InCall =>
        \A n \in NamesOf(head) \ NamesOf(work) :
            /\ n \notin DOMAIN file_dict
            /\ n \notin Submitted

\* f was stored, was deleted from the file, and is attributed as added and as
\* removed
C8_Witness ==
    /\ pc = "returned"
    /\ "f" \in NamesOf(head) \ NamesOf(work)
    /\ "f" \in DOMAIN json_data
    /\ <<"f", "None">> \in changes_in_pyfile.added
    /\ <<"f", "None">> \in changes_in_pyfile.removed
    /\ Len(tasks) > 0

\* C9: a stored declaration that is still in the file and is not dirty gets
\* the current type, start line, end line, parent and name column, and keeps
\* its md_content.
C9_RefreshKeepsDoc ==
    InCall =>
        \A n \in ((DOMAIN json_data) \cap CurNames) \ Dirty :
            /\ \E i \in 1..Len(current_objects) :
                  /\ current_objects[i].name = n
                  /\ file_dict[n].type = current_objects[i].type
                  /\ file_dict[n].code_start_line = current_objects[i].code_start_line
                  /\ file_dict[n].code_end_line = current_objects[i].code_end_line
                  /\ file_dict[n].parent = current_objects[i].parent
                  /\ file_dict[n].name_column = current_objects[i].name_column
            /\ file_dict[n].md_content = json_data[n].md_content

\* f's end line moves from 5 to 6 and h is added and regenerated; f keeps its
\* documentation
C9_Witness ==
    /\ pc = "returned"
    /\ work = VF6H
    /\ changes_in_pyfile.added = {<<"h", "None">>}
    /\ json_data["f"].code_end_line = 5
    /\ file_dict["f"].code_end_line = 6
    /\ file_dict["f"].md_content = <<0>>
    /\ tasks = <<[obj_name |-> "h", st |-> "done"]>>

\* C10: a second call with the same current declarations and an empty
\* attribution submits no task and leaves the metadata as the first call
\* left it.
C10_Idempotent ==
    ( /\ InCall
      /\ prev = "repeat"
      /\ changes_in_pyfile = [added |-> {}, removed |-> {}] )
    => /\ tasks = <<>>
       /\ file_dict = json_data

\* the second of two calls on the same content returned; the first one had
\* inserted a declaration and generated its documentation
C10_Witness ==
    /\ pc = "returned"
    /\ prev = "repeat"
    /\ changes_in_pyfile = [added |-> {}, removed |-> {}]
    /\ \E n \in DOMAIN file_dict : file_dict[n].md_content = <<1>>
    /\ file_dict = json_data

\* C11: within one call no two regeneration tasks submitted to the pool have
\* the same target node: every node of the metadata has at most one writer
\* task, also when 'added' holds one name under two parents.
C11_OneWriterPerNode ==
    \A i, j \in 1..Len(tasks) : tasks[i].obj_name = tasks[j].obj_name => i = j

\* C12: when the generator raises in one task, the step changes nothing but
\* that task's outcome: the md_content of its node is left as it was and no
\* sibling task is cancelled; update_existing_item is not left before every
\* submitted task has run to completion.
C12_FailureIsolated ==
    [][ /\ \A i \in 1..Len(tasks) :
              ( /\ Len(tasks') = Len(tasks)
                /\ tasks[i].st = "running"
                /\ tasks'[i].st = "failed" )
              => /\ file_dict' = file_dict
                 /\ \A j \in 1..Len(tasks) : j # i => tasks'[j] = tasks[j]
        /\ (pc = "pool" /\ pc' # "pool") =>
              \A j \in 1..Len(tasks) : tasks[j].st \in {"done", "failed"}
      ]_vars

\* the first task failed, a sibling submitted after it completed and wrote its
\* documentation, and the failed task's node holds what was stored
C12_Witness ==
    /\ pc = "raised"
    /\ Len(tasks) = 2
    /\ tasks[1].st = "failed"
    /\ tasks[2].st = "done"
    /\ tasks[1].obj_name # tasks[2].obj_name
    /\ file_dict[tasks[1].obj_name].md_content = StoredDoc(tasks[1].obj_name)
    /\ file_dict[tasks[1].obj_name].md_content # <<>>
    /\ file_dict[tasks[2].obj_name].md_content = <<calls>>

\* C13: a generation failure for one declaration does not abort the batch: it
\* does not propagate out of update_existing_item, so the call never ends by
\* the exception with the documentation of the successful sibling tasks left
\* unwritten.
C13_FailureDoesNotAbort ==
    (\E i \in 1..Len(tasks) : tasks[i].st = "failed") => pc # "raised"

\* C14: when the extraction of the current declarations raises during the
\* call, the call ends with the file's metadata, in memory and persisted, as
\* it was before the call: no deletion and no refresh has been applied.
C14_ExtractionFailureLeavesMeta ==
    [][ pc' = "extract_failed" =>
            /\ json_data' = json_data
            /\ file_dict' = json_data ]_vars

\* the structural fields of two records agree
SameStructure(a, b) ==
    /\ a.type = b.type
    /\ a.code_start_line = b.code_start_line
    /\ a.code_end_line = b.code_end_line
    /\ a.parent = b.parent
    /\ a.name_column = b.name_column

\* every deletion, refresh and insertion of the call has been applied
Reconciled ==
    /\ (DOMAIN file_dict) \cap (NamesOf(head) \ NamesOf(work)) = {}
    /\ \A n \in CurNames :
          /\ n \in DOMAIN file_dict
          /\ SameStructure(file_dict[n], CurrentInfoDict(current_objects)[n])

\* C15: every deletion, structural refresh and insertion is completed before
\* the first regeneration task is submitted: whenever a task exists its node
\* holds the refreshed structural fields, and no step taken while tasks exist
\* changes the keys or a structural field of the metadata.
C15_ReconcileBeforeSubmit ==
    /\ [](Len(tasks) > 0 => Reconciled)
    /\ [][ (Len(tasks) > 0 /\ Len(tasks') > 0) =>
              /\ DOMAIN file_dict' = DOMAIN file_dict
              /\ \A n \in DOMAIN file_dict : SameStructure(file_dict'[n], file_dict[n])
         ]_vars

\* a task runs on f, whose stored end line was refreshed from 5 to 6, in a
\* call that also inserted h
C15_Witness ==
    /\ pc = "pool"
    /\ \E i \in Running : tasks[i].obj_name = "f"
    /\ json_data["f"].code_end_line = 5
    /\ file_dict["f"].code_end_line = 6
    /\ "h" \in (DOMAIN file_dict) \ (DOMAIN json_data)

C17_TaskWritesOwnDocOnly ==
    [][ (pc = "pool" /\ pc' = "pool" /\ tasks' # tasks) =>
            \E i \in 1..Len(tasks) :
                /\ tasks'[i] # tasks[i]
                /\ DOMAIN file_dict' = DOMAIN file_dict
                /\ \A n \in DOMAIN file_dict :
                      /\ n # tasks[i].obj_name => file_dict'[n] = file_dict[n]
                      /\ SameStructure(file_dict'[n], file_dict[n])
                      /\ file_dict'[n].name = file_dict[n].name
      ]_vars

\* a task wrote its node's documentation while a sibling was running; another
\* documented node of the file holds what was stored
C17_Witness ==
    /\ pc = "pool"
    /\ \E i, j \in 1..Len(tasks) :
          /\ tasks[i].st = "done"
          /\ tasks[j].st = "running"
          /\ file_dict[tasks[i].obj_name].md_content = <<calls>>
          /\ file_dict[tasks[j].obj_name].md_content = StoredDoc(tasks[j].obj_name)
          /\ file_dict[tasks[j].obj_name].md_content # <<>>

\* C20: the outcome of update_existing_item does not depend on 'removed': two
\* calls from the same metadata, the same versions and the same 'added', with
\* different 'removed', submit the same tasks and hold the same metadata; a
\* declaration that is only in 'removed' is not regenerated.
C20_RemovedIsIgnored ==
    /\ pc = "idle" =>
          \A c1, c2 \in Attributions :
              c1.added = c2.added =>
                  \A order \in Orders(c1.added) :
                      UpdateExistingItem(json_data, work, head, c1, order)
                          = UpdateExistingItem(json_data, work, head, c2, order)
    /\ InCall =>
          \A q \in changes_in_pyfile.removed :
              (\A a \in changes_in_pyfile.added : a[1] # q[1]) =>
                  /\ q[1] \notin Submitted
                  /\ q[1] \in DOMAIN file_dict =>
                        file_dict[q[1]].md_content = StoredDoc(q[1])

\* f is a current declaration named by 'removed' only: it kept its stored
\* documentation in a call that regenerated another declaration
C20_Witness ==
    /\ pc = "returned"
    /\ changes_in_pyfile.removed = {<<"f", "None">>}
    /\ \A a \in changes_in_pyfile.added : a[1] # "f"
    /\ "f" \in CurNames
    /\ file_dict["f"].md_content = <<0>>
    /\ \E i \in 1..Len(tasks) : tasks[i].st = "done"

\* C21: a rename of f to g is a deletion and an addition: during and after
\* the call the node f is gone and a node g exists, and g's md_content is
\* not f's former one: it is empty, or generated in this call, or what was
\* stored under g itself.
C21_RenameIsDeletePlusAdd ==
    InCall =>
        \A f \in (NamesOf(head) \ NamesOf(work)) \cap DOMAIN json_data :
            \A g \in NamesOf(work) \ NamesOf(head) :
                /\ f \notin DOMAIN file_dict
                /\ g \in DOMAIN file_dict
                /\ file_dict[g].md_content \in
                      {<<>>, <<calls>>} \cup
                      (IF g \in DOMAIN json_data THEN {json_data[g].md_content} ELSE {})

\* f, documented, was renamed to g: the call returned with g only, its
\* documentation empty
C21_Witness ==
    /\ pc = "returned"
    /\ head = VF5
    /\ work = VG5
    /\ json_data["f"].md_content = <<0>>
    /\ DOMAIN file_dict = {"g"}
    /\ file_dict["g"].md_content = <<>>

\* C23: at every moment of update_existing_item at most 5 regeneration tasks
\* execute concurrently, whatever the size of the dirty set; the structural
\* reconciliation is the calling thread's: while the pool runs, the keys and
\* structural fields of the metadata, the current objects and the
\* attribution do not change.
C23_AtMostFiveRunning ==
    /\ [](Cardinality(Running) <= 5)
    /\ [][ (pc = "pool" /\ pc' = "pool") =>
              /\ current_objects' = current_objects
              /\ changes_in_pyfile' = changes_in_pyfile
              /\ DOMAIN file_dict' = DOMAIN file_dict
              /\ \A n \in DOMAIN file_dict : SameStructure(file_dict'[n], file_dict[n])
         ]_vars

\* five tasks execute and the other submitted tasks wait
C23_Witness ==
    /\ pc = "pool"
    /\ Cardinality(Running) = 5
    /\ Cardinality({i \in 1..Len(tasks) : tasks[i].st = "pending"}) >= 2

\* the items need_to_generate does not exclude by their type, name or fathers
Generable ==
    {i \in 1..Len(topology_list) :
        /\ topology_list[i].item_type \notin {"_file", "_dir", "_repo"}
        /\ FileAbove(topology_list[i].full_name, topology_list[i].fathers)}

\* C25: document_version starts at -1; it is set to 0 only by a first_generate
\* pass that has gone through the whole topology list without an exception; a
\* pass that an error interrupts inside the list leaves it at -1; the
\* version in memory never decreases during a process and the checkpointed
\* one never decreases; whenever either is 0 the generator has returned a
\* document, in this or an earlier process, for every item that
\* need_to_generate does not exclude.
C25_DocumentVersion ==
    /\ [](runs = 0 => document_version = -1 /\ checkpointed.document_version = -1)
    /\ [](document_version \in {-1, 0} /\ checkpointed.document_version \in {-1, 0})
    /\ [][ /\ (document_version = -1 /\ document_version' = 0) =>
                /\ gen_pc = "loop"
                /\ topo_k > Len(topology_list)
                /\ fault = "none"
           /\ (gen_pc \in {"loop", "checkpoint"} /\ fault' # "none") =>
                /\ document_version' = -1
                /\ checkpointed'.document_version = -1
           /\ runs' = runs => document_version' >= document_version
           /\ checkpointed'.document_version >= checkpointed.document_version
         ]_vars
    /\ []( (runs > 0 /\ (document_version = 0 \/ checkpointed.document_version = 0)) =>
              \A i \in Generable : gen_count[i] >= 1 /\ item_md[i] # <<>> )

\* a second process finished the pass a generator error had interrupted:
\* the version is 0 in memory and on disk
C25_Witness ==
    /\ runs = 2
    /\ topology_list = TopologyAB
    /\ gen_pc = "detect"
    /\ fault = "none"
    /\ document_version = 0
    /\ checkpointed.document_version = 0
    /\ item_md[1] = <<1>>
    /\ item_md[2] = <<2>>

\* C26: first_generate is resumable: when the generation of an item starts,
\* every document generated before it is in the checkpoint; a process
\* restored from the checkpoint skips the items that have a document; over
\* any sequence of interrupted and resumed processes the documentation of an
\* item is generated at most once.
C26_GeneratedAtMostOnce ==
    /\ [][ gen_count' # gen_count =>
              /\ FromCheckpoint(topology_list, checkpointed).item_md = item_md
              /\ item_md[topo_k] = <<>> ]_vars
    /\ [](\A i \in 1..Len(gen_count) : gen_count[i] <= 1)

ExcludedItem(i) ==
    \/ topology_list[i].item_type \in {"_file", "_dir", "_repo"}
    \/ item_md[i] # <<>>
    \/ "_file" \notin Range(topology_list[i].fathers)
    \/ \E j \in 1..Len(ignore_list) : StartsWith(topology_list[i].full_name, ignore_list[j])

\* C29: first_generate never invokes the generator for an item of type file,
\* directory or repo, for an item whose md_content is not empty, for an item
\* with no file above it, or for an item whose path starts with an entry of
\* the ignore list; it invokes it for every other item of the topology list,
\* in topology order, until the first error.
C29_GeneratorInvocations ==
    /\ [][ /\ (gen_count' # gen_count \/ (fault' = "generator" /\ fault = "none")) =>
                /\ gen_pc = "loop"
                /\ fault = "none"
                /\ topo_k \in 1..Len(topology_list)
                /\ ~ExcludedItem(topo_k)
                /\ \A i \in 1..Len(gen_count) : i # topo_k => gen_count'[i] = gen_count[i]
           /\ (gen_pc = "loop" /\ gen_pc' = "loop" /\ topo_k' # topo_k) =>
                /\ ExcludedItem(topo_k)
                /\ topo_k' = topo_k + 1
           /\ (gen_pc = "checkpoint" /\ gen_pc' = "loop") => topo_k' = topo_k + 1
           /\ (gen_pc = "run" /\ gen_pc' = "loop") => topo_k' = 1
           /\ (gen_pc \in {"loop", "checkpoint"} /\ fault' # "none") =>
                gen_pc' \notin {"loop", "checkpoint", "final"}
         ]_vars
    /\ [](gen_pc = "final" => \A i \in 1..Len(topology_list) : ExcludedItem(i))

\* a second process went through the whole list: it skipped the item that
\* had a document, generated the others of file a in order, and left the
\* ignored item, the item without a file above it and the files alone
C29_Witness ==
    /\ gen_pc = "final"
    /\ runs = 2
    /\ topology_list = TopologyAB
    /\ item_md = << <<1>>, <<2>>, <<2>>, <<>>, <<>>, <<>>, <<>>, <<>>, <<>> >>
    /\ gen_count = <<1, 1, 1, 0, 0, 0, 0, 0, 0>>

\* C30: when the changed file has no entry in the persisted metadata,
\* process_file_changes takes the add_new_item path: the generator is called
\* for every declaration of the file, in order, whatever the attribution
\* names, and the entry of the file, one object per declaration name each
\* carrying its md_content, is written to the persisted metadata only after
\* all of them have been generated; the other entries are left as they were.
C30_AddNewItem ==
    [][ /\ (pc = "idle" /\ pc' # "idle" /\ FilePath \notin DOMAIN json_data) =>
              pc' = "adding"
        /\ json_data' # json_data =>
              /\ FilePath \notin DOMAIN json_data
              /\ Len(tasks) = Len(work)
              /\ \A i \in 1..Len(work) :
                    tasks[i].obj_name = work[i].name /\ tasks[i].st = "done"
              /\ DOMAIN json_data' = (DOMAIN json_data) \cup {FilePath}
              /\ \A f \in DOMAIN json_data : json_data'[f] = json_data[f]
              /\ DOMAIN json_data'[FilePath] = NamesOf(work)
              /\ \A n \in NamesOf(work) :
                    LET i == LastIndexOf(work, n)
                        o == json_data'[FilePath][n]
                    IN  /\ o.md_content = <<calls, i>>
                        /\ [o EXCEPT !.md_content = <<>>] = GetObjCodeInfo(work[i])
      ]_vars

\* the entry of a file with three declarations and two names was written,
\* next to the entry of another file, after a call whose attribution named
\* nothing
C30_Witness ==
    /\ pc = "added"
    /\ work = VCls
    /\ changes_in_pyfile.added = {}
    /\ DOMAIN json_data = {"o.py", FilePath}
    /\ DOMAIN json_data[FilePath] = {"A", "m"}
    /\ Len(tasks) = 3

\* C31: if every generator call terminates, update_existing_item terminates,
\* and it returns only after every submitted regeneration task has finished:
\* at return no task is running or pending, and the node of every task that
\* finished without an exception holds the md_content generated in this call.
C31_ReturnsAfterAllTasks ==
    /\ (pc = "pool") ~> (pc \in {"returned", "raised"})
    /\ [](pc = "returned" =>
            \A i \in 1..Len(tasks) : tasks[i].st \notin {"pending", "running"})
    /\ [](pc = "returned" =>
            \A i \in 1..Len(tasks) :
                tasks[i].st \in {"done", "skipped"} =>
                    \E k \in 1..Len(file_dict) :
                        /\ file_dict[k].name = tasks[i].obj_name
                        /\ file_dict[k].md_content = <<calls>>)

\* the lines read so far that start with the mark and not with three of it
RecordLines(mark) ==
    {i \in 1..(idx - 1) :
        /\ StartsWith(diffs[i], <<mark>>)
        /\ ~StartsWith(diffs[i], <<mark, mark, mark>>)}

\* the k-th smallest element of a set of indices
KthOf(S, k) == CHOOSE i \in S : Cardinality({j \in S : j < i}) = k - 1

\* no hunk header stands between the lines i and j
SameHunk(i, j) == \A m \in i..j : ~StartsWith(diffs[m], <<"@", "@">>)

\* list grew by one record at its end, and the record holds the text of line
AppendedFrom(list, grown, line, mark) ==
    /\ StartsWith(line, <<mark>>)
    /\ Len(grown) = Len(list) + 1
    /\ SubSeq(grown, 1, Len(list)) = list
    /\ grown[Len(grown)][2] = Tail(line)

\* the records of a list stand in the order of their lines, and the numbers
\* of two neighbours from one hunk increase
OrderedByLine(list, mark) ==
    /\ Len(list) = Cardinality(RecordLines(mark))
    /\ \A k \in 1..Len(list) : list[k][2] = Tail(diffs[KthOf(RecordLines(mark), k)])
    /\ \A k \in 1..(Len(list) - 1) :
          SameHunk(KthOf(RecordLines(mark), k), KthOf(RecordLines(mark), k + 1))
              => list[k][1] < list[k + 1][1]

\* C32: parse_diffs returns the records of each list in the order their
\* lines appear in the diff, and within one hunk the line numbers of
\* consecutive records of the same list are strictly increasing; the
\* file-header lines ("+++", "---") never produce a record.
C32_RecordsInDiffOrder ==
    /\ [][ idx' # idx =>
            LET line == diffs[idx] IN
            /\ \/ changed_lines'.added = changed_lines.added
               \/ AppendedFrom(changed_lines.added, changed_lines'.added, line, "+")
            /\ \/ changed_lines'.removed = changed_lines.removed
               \/ AppendedFrom(changed_lines.removed, changed_lines'.removed, line, "-")
            /\ (StartsWith(line, <<"+", "+", "+">>) \/ StartsWith(line, <<"-", "-", "-">>))
                  => changed_lines' = changed_lines
         ]_vars
    /\ [](/\ OrderedByLine(changed_lines.added, "+")
          /\ OrderedByLine(changed_lines.removed, "-"))

\* the diff of a file header and one hunk was read to its end: two added
\* lines and a removed one
C32_Witness ==
    /\ wellformed
    /\ ParseDone
    /\ Len(changed_lines.added) = 2
    /\ Len(changed_lines.removed) = 1
    /\ changed_lines.added[1][1] < changed_lines.added[2][1]
    /\ \E i \in 1..Len(diffs) : StartsWith(diffs[i], <<"+", "+", "+">>)
    /\ Cardinality({i \in 1..Len(diffs) : StartsWith(diffs[i], <<"@", "@">>)}) = 1

=============================================================================
